---- MODULE Spec2Model ----
(***************************************************************************)
(* SmartDocs: the knowledge-base ingestion and session-context pipeline.   *)
(*                                                                         *)
(* The React component App (src/App.tsx) is modelled as a state machine.   *)
(* Its useState cells are the variables.  A synchronous event handler is   *)
(* one action.  An async handler is one action per run-to-completion       *)
(* segment: the part up to its first network await, and the continuation   *)
(* that runs when the awaited promise settles.  A pending async call is a  *)
(* record in starts / turns holding the values its closure captured.       *)
(*                                                                         *)
(* Text is a sequence of symbols (one-character strings, or one string     *)
(* standing for a fixed piece of template text).                           *)
(*                                                                         *)
(* Left out: message ids and timestamps (React keys and display only),     *)
(* isSidebarOpen and activeTab (CSS visibility and a tab the user switches *)
(* freely, so no handler is ever unreachable because of them).             *)
(***************************************************************************)
EXTENDS Integers, Sequences, FiniteSets, TLC

VARIABLES
    files,          \* App.tsx:11   live document list
    savedKBs,       \* App.tsx:12   in-memory index of saved knowledge bases
    storage,        \* localStorage slot 'smartsdk_kbs': <<>> (no item) or <<text>>
    sessionActive,  \* App.tsx:16
    chatInstance,   \* App.tsx:17   NoChat (null) or the provider's chat handle
    showSaveInput,  \* App.tsx:20
    saveName,       \* App.tsx:21
    chatState,      \* App.tsx:23   messages, isLoading, streamingText, token totals
    starts,         \* pending handleStartSession calls (awaiting the token estimate)
    turns,          \* pending handleSendMessage calls (awaiting the stream)
    uploads,        \* pending handleFileChange calls (FileUpload.tsx), decoding
    now,            \* Date.now()
    nextId,         \* number of document ids drawn from Math.random so far
    apiKey,         \* geminiService.ts:8  whether the build provides an API key
    bound,          \* how much the user and the provider do in this run (never changes)
    dialog,         \* the selections the user makes in the file dialog in this run
    nextChat,       \* number of chat handles the provider has created so far
    chats,          \* history: for each chat handle the configuration it was created
                    \* with and the call of handleStartSession that created it
    sent,           \* number of streams the provider has been asked for so far
    streamed,       \* number of chunks the provider has streamed so far
    saved,          \* history: the id and the document list of every save that succeeded
    last            \* history: the handler segment that ran last, and what it saw

vars == <<files, savedKBs, storage, sessionActive, chatInstance, showSaveInput,
          saveName, chatState, starts, turns, uploads, now, nextId, nextChat, chats, sent,
          streamed, saved, apiKey, bound, dialog, last>>

\* The document list, the saved knowledge bases and the save form
libraryVars == <<files, savedKBs, storage, showSaveInput, saveName, uploads, now, nextId,
                 saved>>

\* The chat session, its pending calls and the provider's counters
chatVars == <<sessionActive, chatInstance, chatState, starts, turns, nextChat, chats, sent, streamed>>

\* The environment of a run
envVars == <<apiKey, bound, dialog>>

\* The program's own state: everything but the history variable.
progVars == <<files, savedKBs, storage, sessionActive, chatInstance, showSaveInput,
              saveName, chatState, starts, turns, uploads, now, nextId, nextChat, chats, sent,
              streamed, saved, apiKey, bound, dialog>>

-----------------------------------------------------------------------------
(* Bounds of the model *)

\* Chat handles the provider creates in one run.
MaxSessions == 1
\* Turns submitted in one run.
MaxTurns == 2
\* Stream chunks the provider delivers in one run.
MaxChunks == 2
\* handleStartSession calls pending at once.
MaxStarts == 1
\* Knowledge bases saved in one run.
MaxSaves == 2
\* Documents ingested in one run.
MaxDocs == 2
\* handleFileChange calls pending at once.
MaxUploads == 1

Bound == [sessions |-> MaxSessions, turns |-> MaxTurns, chunks |-> MaxChunks,
          starts |-> MaxStarts, saves |-> MaxSaves, docs |-> MaxDocs,
          uploads |-> MaxUploads, clock |-> "advances"]

\* The wider bounds of the runs in which handlers overlap: a second start clicked while
\* the first awaits its estimate, a turn still streaming when its session is reset.
RaceSessions == 2
RaceTurns == 3
RaceChunks == 1
RaceStarts == 2

RaceBound == [sessions |-> RaceSessions, turns |-> RaceTurns, chunks |-> RaceChunks,
              starts |-> RaceStarts, saves |-> MaxSaves, docs |-> MaxDocs,
              uploads |-> MaxUploads, clock |-> "advances"]

\* The runs in which upload batches overlap and archives are picked
UploadDocs == 4
UploadBatches == 2
\* Entries of one archive that are decoded at once
MaxEntries == 2

\* The runs in which every pending call settles
SettlingTurns == 1

UploadBound == [Bound EXCEPT !.docs = UploadDocs, !.uploads = UploadBatches]

\* The runs in which two saves read the same Date.now(): the wall clock is set back
\* between them, or its reading is coarser than the time between them.
ClockBound == [Bound EXCEPT !.clock = "repeats"]

-----------------------------------------------------------------------------
(* Data *)

\* types.ts Role
USER == "user"
MODEL == "model"

\* chatInstance === null
NoChat == 0

\* An optional number that is undefined (usageMetadata fields, totalTokens).
Undefined == -1

\* `x || 0` on an optional number
OrZero(x) == IF x = Undefined THEN 0 ELSE x

RECURSIVE Concat(_)
\* the concatenation of a sequence of texts
Concat(ss) == IF ss = <<>> THEN <<>> ELSE Head(ss) \o Concat(Tail(ss))

RECURSIVE Join(_, _)
\* Array.prototype.join: the texts of ss separated by sep
Join(ss, sep) ==
    IF ss = <<>> THEN <<>>
    ELSE IF Len(ss) = 1 THEN ss[1]
    ELSE ss[1] \o sep \o Join(Tail(ss), sep)

IsSpace(c) == c \in {" ", "\n", "\t"}

RECURSIVE TrimStart(_)
TrimStart(s) == IF s # <<>> /\ IsSpace(Head(s)) THEN TrimStart(Tail(s)) ELSE s

RECURSIVE TrimEnd(_)
TrimEnd(s) ==
    IF s # <<>> /\ IsSpace(s[Len(s)]) THEN TrimEnd(SubSeq(s, 1, Len(s) - 1)) ELSE s

\* String.prototype.trim
Trim(s) == TrimEnd(TrimStart(s))

\* UploadedFile (types.ts).  A name is a sequence of path symbols, <<"readme", ".", "md">>.
Doc(id, name, content, size, type) ==
    [id |-> id, name |-> name, content |-> content, size |-> size, type |-> type]

\* The files the user can pick in the file dialog: name, declared media type, declared
\* size, and what file.text() yields (readable FALSE: it rejects).
\* A media type is a sequence of symbols too, <<"text", "/", "plain">>.
PickReadme ==
    [name |-> <<"readme", ".", "md">>, type |-> <<"text", "/", "markdown">>, size |-> 1,
     text |-> <<"H">>, readable |-> TRUE, archive |-> [opens |-> FALSE, entries |-> <<>>]]
PickGuide ==
    [name |-> <<"guide", ".", "txt">>, type |-> <<"text", "/", "plain">>, size |-> 1,
     text |-> <<"W">>, readable |-> TRUE, archive |-> [opens |-> FALSE, entries |-> <<>>]]

\* An entry of an archive as zip.forEach hands it over: its path, whether it is a
\* directory, and what zipEntry.async('string') yields (readable FALSE: it rejects)
Entry(name, dir, text) == [name |-> name, dir |-> dir, text |-> text, readable |-> TRUE]

\* docs.zip: a.py, the metadata twin macOS adds for it, a directory and src/b.ts in it
PickArchive ==
    [name |-> <<"docs", ".", "zip">>, type |-> <<"application", "/", "zip">>, size |-> 9,
     text |-> <<"PK">>, readable |-> TRUE,
     archive |-> [opens |-> TRUE,
                  entries |-> << Entry(<<"a", ".", "py">>, FALSE, <<"P">>),
                                 Entry(<<"__MACOSX", "/", ".", "_a", ".", "py">>, FALSE, <<"M">>),
                                 Entry(<<"src", "/">>, TRUE, <<>>),
                                 Entry(<<"src", "/", "b", ".", "ts">>, FALSE, <<"T", "S">>) >>]]

\* bundle.zip: a hidden file, a metadata twin, a directory, a picture and notes.txt
PickBundle ==
    [name |-> <<"bundle", ".", "zip">>, type |-> <<"application", "/", "zip">>, size |-> 9,
     text |-> <<"PK">>, readable |-> TRUE,
     archive |-> [opens |-> TRUE,
                  entries |-> << Entry(<<".", "hidden", ".", "md">>, FALSE, <<"D">>),
                                 Entry(<<"__MACOSX", "/", ".", "_n", ".", "md">>, FALSE, <<"M">>),
                                 Entry(<<"lib", ".", "js", "/">>, TRUE, <<>>),
                                 Entry(<<"img", "/", "logo", ".", "png">>, FALSE, <<"G">>),
                                 Entry(<<"notes", ".", "txt">>, FALSE, <<"N">>) >>]]

\* empty.zip: an archive without entries
PickEmptyArchive ==
    [name |-> <<"empty", ".", "zip">>, type |-> <<"application", "/", "zip">>, size |-> 9,
     text |-> <<"PK">>, readable |-> TRUE, archive |-> [opens |-> TRUE, entries |-> <<>>]]

\* nested.zip: a hidden file in a directory, and a program without extension that is
\* called like one
PickNested ==
    [name |-> <<"nested", ".", "zip">>, type |-> <<"application", "/", "zip">>, size |-> 9,
     text |-> <<"PK">>, readable |-> TRUE,
     archive |-> [opens |-> TRUE,
                  entries |-> << Entry(<<"src", "/", ".", "env", ".", "json">>, FALSE, <<"E">>),
                                 Entry(<<"go">>, FALSE, <<"B">>) >>]]

\* damaged.zip: ok.md, and bad.md whose compressed data does not inflate
PickDamaged ==
    [name |-> <<"damaged", ".", "zip">>, type |-> <<"application", "/", "zip">>, size |-> 9,
     text |-> <<"PK">>, readable |-> TRUE,
     archive |-> [opens |-> TRUE,
                  entries |-> << Entry(<<"ok", ".", "md">>, FALSE, <<"O">>),
                                 [Entry(<<"bad", ".", "md">>, FALSE, <<>>)
                                     EXCEPT !.readable = FALSE] >>]]

\* broken.zip: a file named like an archive that JSZip.loadAsync fails to open
PickBroken ==
    [name |-> <<"broken", ".", "zip">>, type |-> <<"application", "/", "zip">>, size |-> 9,
     text |-> <<"??">>, readable |-> TRUE, archive |-> [opens |-> FALSE, entries |-> <<>>]]

\* locked.txt: a text file that file.text() fails to read
PickLocked ==
    [name |-> <<"locked", ".", "txt">>, type |-> <<"text", "/", "plain">>, size |-> 1,
     text |-> <<>>, readable |-> FALSE, archive |-> [opens |-> FALSE, entries |-> <<>>]]

\* The documents readme.md ("H") and guide.txt ("W") as an earlier upload made them.
DocA == Doc(<<"r", "1">>, PickReadme.name, PickReadme.text, PickReadme.size, PickReadme.type)
DocB == Doc(<<"r", "2">>, PickGuide.name, PickGuide.text, PickGuide.size, PickGuide.type)

\* Message (types.ts); isError is optional there and absent means false
Msg(role, text, isError) == [role |-> role, text |-> text, isError |-> isError]

\* ChatState as constructed at App.tsx:23-29, 98-104 and 118-124
EmptyChatState ==
    [messages |-> <<>>, isLoading |-> FALSE, streamingText |-> <<>>,
     totalInputTokens |-> 0, totalOutputTokens |-> 0]

\* Number.prototype.toString and JSON's number syntax: the decimal digits of n >= 0
DigitChars == <<"0", "1", "2", "3", "4", "5", "6", "7", "8", "9">>

RECURSIVE Digits(_)
Digits(n) ==
    IF n < 10 THEN <<DigitChars[n + 1]>>
    ELSE Digits(n \div 10) \o <<DigitChars[(n % 10) + 1]>>

DigitValue(c) == CHOOSE d \in 0..9 : DigitChars[d + 1] = c

RECURSIVE ParseDigits(_)
\* the number a sequence of decimal digits denotes
ParseDigits(t) ==
    IF Len(t) = 1 THEN DigitValue(t[1])
    ELSE 10 * ParseDigits(SubSeq(t, 1, Len(t) - 1)) + DigitValue(t[Len(t)])

\* Array.prototype.filter: the elements of s whose index is in keep, in order
RECURSIVE Keep(_, _)
Keep(s, keep) ==
    IF s = <<>> THEN <<>>
    ELSE Keep(SubSeq(s, 1, Len(s) - 1), keep)
            \o (IF Len(s) \in keep THEN <<s[Len(s)]>> ELSE <<>>)

-----------------------------------------------------------------------------
(* components/FileUpload.tsx *)

\* FileUpload.tsx:13-18
TEXT_EXTENSIONS ==
    {"txt", "md", "json", "ts", "js", "tsx", "jsx", "cpp", "c", "h", "hpp", "py", "sh",
     "java", "html", "css", "scss", "xml", "yaml", "yml", "sql", "rs", "go", "rb", "php"}

\* String.prototype.toLowerCase on one path symbol
ToLowerCase(sym) ==
    CASE sym = "MD" -> "md"
      [] sym = "TXT" -> "txt"
      [] sym = "PY" -> "py"
      [] sym = "ZIP" -> "zip"
      [] sym = "QUOTA" -> "quota"
      [] OTHER -> sym

RECURSIVE AfterLastDot(_)
\* filename.split('.').pop(): the symbols after the last "." (all of them when none)
AfterLastDot(name) ==
    IF name = <<>> THEN <<>>
    ELSE IF name[Len(name)] = "." THEN <<>>
    ELSE AfterLastDot(SubSeq(name, 1, Len(name) - 1)) \o <<name[Len(name)]>>

\* FileUpload.tsx:20-23
isTextFile(filename) ==
    LET ext == AfterLastDot(filename)
    IN  /\ ext # <<>>
        /\ Len(ext) = 1
        /\ ToLowerCase(ext[1]) \in TEXT_EXTENSIONS

\* s.includes(sym), s.startsWith(prefix), s.endsWith(suffix) on symbol sequences
Includes(s, sym) == \E i \in 1..Len(s) : s[i] = sym
StartsWith(s, prefix) == Len(s) >= Len(prefix) /\ SubSeq(s, 1, Len(prefix)) = prefix
EndsWith(s, suffix) ==
    Len(s) >= Len(suffix) /\ SubSeq(s, Len(s) - Len(suffix) + 1, Len(s)) = suffix

\* Math.random().toString(36).substr(2, 9): the id of the n-th draw
RandomId(n) == <<"r">> \o Digits(n)

\* What JSZip.loadAsync makes of a picked file that is no archive: it rejects.
NoArchive == [opens |-> FALSE, entries |-> <<>>]

\* FileUpload.tsx:39-54: the entries of an archive that zip.forEach turns into promises
SelectedEntries(entries) ==
    LET wanted(e) == /\ ~(e.dir \/ Includes(e.name, "__MACOSX") \/ StartsWith(e.name, <<".">>))
                     /\ isTextFile(e.name)
    IN  Keep(entries, {i \in 1..Len(entries) : wanted(entries[i])})

\* The orders in which the decodes of one archive's entries can complete: order[p] is
\* the entry that completes p-th
CompletionOrders == {o \in [1..MaxEntries -> 1..MaxEntries] : \A i \in 1..MaxEntries : \E p \in 1..MaxEntries : o[p] = i}

\* the place of entry i among the first n entries when they complete in order
Rank(i, n, order) ==
    LET pos(j) == CHOOSE p \in 1..MaxEntries : order[p] = j
    IN  Cardinality({j \in 1..n : pos(j) <= pos(i)})

\* ZipDocuments pushing each document when its decode completes
ZipDocumentsAsCompleted(file, from, order) ==
    LET chosen == SelectedEntries(file.archive.entries)
        n == Len(chosen)
        at(r) == CHOOSE i \in 1..n : Rank(i, n, order) = r
    IN  IF ~file.archive.opens THEN <<>>
        ELSE IF \E i \in 1..n : ~chosen[i].readable THEN <<>>
        ELSE [r \in 1..n |->
                Doc(RandomId(from + r), chosen[at(r)].name, chosen[at(r)].text,
                    Len(chosen[at(r)].text), <<"text", "/", "plain">>)]

\* FileUpload.tsx:34-65: the documents of one archive, ids drawn from `from` on.
\* The decodes run at once and each draws its id when it completes (FileUpload.tsx:46-47);
\* Promise.all yields the results in the order of the promises, whatever order they
\* complete in.  It rejects when one decode does, and the catch block drops them all.
ZipDocuments(file, from, order) ==
    LET chosen == SelectedEntries(file.archive.entries)
        n == Len(chosen)
    IN  IF ~file.archive.opens THEN <<>>
        ELSE IF \E i \in 1..n : ~chosen[i].readable THEN <<>>
        ELSE [i \in 1..n |->
                Doc(RandomId(from + Rank(i, n, order)), chosen[i].name, chosen[i].text,
                    Len(chosen[i].text), <<"text", "/", "plain">>)]

\* FileUpload.tsx:60-63: whether the archive's catch block runs (and alerts)
ZipFails(file) ==
    LET chosen == SelectedEntries(file.archive.entries)
    IN  ~file.archive.opens \/ \E i \in 1..Len(chosen) : ~chosen[i].readable

RECURSIVE ZipAlerts(_)
\* FileUpload.tsx:61-62: the files of a selection for which alert('Failed to process zip
\* file') is raised, in the order of the alerts
ZipAlerts(fileList) ==
    IF fileList = <<>> THEN <<>>
    ELSE LET file == Head(fileList)
         IN  (IF (EndsWith(file.name, <<".", "zip">>) \/ Includes(file.type, "zip"))
                    /\ ZipFails(file)
              THEN <<file.name>> ELSE <<>>)
             \o ZipAlerts(Tail(fileList))

\* FileDocuments taking the length of the text for the size, as the zip branch does
FileDocumentsSizedByContent(file, from, order) ==
    IF EndsWith(file.name, <<".", "zip">>) \/ Includes(file.type, "zip")
    THEN ZipDocuments(file, from, order)
    ELSE IF file.readable /\ (isTextFile(file.name) \/ ~Includes(file.text, "NUL"))
    THEN <<Doc(RandomId(from + 1), file.name, file.text, Len(file.text),
               IF file.type # <<>> THEN file.type ELSE <<"text", "/", "plain">>)>>
    ELSE <<>>

\* FileUpload.tsx:32-99: the documents one picked file contributes
FileDocuments(file, from, order) ==
    IF EndsWith(file.name, <<".", "zip">>) \/ Includes(file.type, "zip")
    THEN ZipDocuments(file, from, order)
    ELSE IF isTextFile(file.name) \/ StartsWith(file.type, <<"text", "/">>)
    THEN IF file.readable
         THEN <<Doc(RandomId(from + 1), file.name, file.text, file.size,
                    IF file.type # <<>> THEN file.type ELSE <<"text", "/", "plain">>)>>
         ELSE <<>>
    ELSE IF file.readable /\ ~Includes(file.text, "NUL")
         THEN <<Doc(RandomId(from + 1), file.name, file.text, file.size, file.type)>>
         ELSE <<>>

RECURSIVE NewFilesUntilFailure(_, _, _)
\* NewFiles with a catch block that leaves the loop
NewFilesUntilFailure(fileList, from, order) ==
    IF fileList = <<>> THEN <<>>
    ELSE LET file == Head(fileList)
             docs == FileDocuments(file, from, order)
         IN  IF (EndsWith(file.name, <<".", "zip">>) \/ Includes(file.type, "zip"))
                    /\ ZipFails(file)
             THEN <<>>
             ELSE docs \o NewFilesUntilFailure(Tail(fileList), from + Len(docs), order)

RECURSIVE NewFiles(_, _, _)
\* FileUpload.tsx:29-100: newFiles after the loop over the picked files
NewFiles(fileList, from, order) ==
    IF fileList = <<>> THEN <<>>
    ELSE LET docs == FileDocuments(Head(fileList), from, order)
         IN  docs \o NewFiles(Tail(fileList), from + Len(docs), order)

-----------------------------------------------------------------------------
(* services/geminiService.ts *)

\* DocBlock naming the document by its id as well
DocBlockWithId(f) ==
    <<"--- Document: ">> \o f.name \o <<"#">> \o f.id \o <<" ---", "\n">> \o f.content \o <<"\n">>

\* App.tsx:63  files.map(f => `--- Document: ${f.name} ---\n${f.content}\n`).join('\n')
DocBlock(f) == <<"--- Document: ">> \o f.name \o <<" ---", "\n">> \o f.content \o <<"\n">>

KnowledgeBaseText(fs) == Join([i \in 1..Len(fs) |-> DocBlock(fs[i])], <<"\n">>)

\* The template of buildSystemInstruction around ${context}, before .trim()
TemplateHead == <<"\n", " ", "You are an expert technical support agent ...", "\n",
                  "--- START KNOWLEDGE BASE ---", "\n">>
TemplateTail == <<"\n", "--- END KNOWLEDGE BASE ---", "\n", "INSTRUCTIONS: ...", "\n", " ">>

buildSystemInstruction(context) == Trim(TemplateHead \o context \o TemplateTail)

\* The provider's countTokens: one token per symbol of the text.
CountTokens(text) == Len(text)

\* What ai.models.countTokens can do: throw, answer without totalTokens, answer.
CountOutcomes == {"throws", "noTotal", "ok"}

estimateTokenCount(text, outcome) ==
    IF outcome = "throws" THEN 0
    ELSE OrZero(IF outcome = "noTotal" THEN Undefined ELSE CountTokens(text))

\* geminiService.ts:49-60: the configuration of the chat that ai.chats.create is asked for
createChatSession(context) ==
    [systemInstruction |-> buildSystemInstruction(context), temperature |-> <<"0", ".", "2">>]

\* UsageStats as built at geminiService.ts:80-84 from a chunk's usageMetadata
UsageOf(meta) ==
    [promptTokenCount |-> OrZero(meta.promptTokenCount),
     candidatesTokenCount |-> OrZero(meta.candidatesTokenCount)]

\* The chunks a stream can deliver: text (possibly none) and usageMetadata (possibly none,
\* possibly with undefined counts).  An optional value is a sequence of length 0 or 1.
Chunks ==
    { [text |-> <<"a">>, usageMetadata |-> <<>>],
      [text |-> <<"b">>, usageMetadata |-> <<[promptTokenCount |-> 2, candidatesTokenCount |-> 1]>>],
      [text |-> <<>>, usageMetadata |-> <<[promptTokenCount |-> Undefined, candidatesTokenCount |-> 1]>>] }

\* The errors chat.sendMessageStream can raise: [message, status]; message <<>> is none.
StreamErrors ==
    { [message |-> <<>>, status |-> "UNKNOWN"],
      [message |-> <<"quota exceeded">>, status |-> ""] }

ConnectionFailed == <<"Connection failed. This could be due to a network issue, ...">>
GenericStreamError == <<"An error occurred while communicating with the AI.">>

\* geminiService.ts:88-100: the message of the Error sendMessageStream rethrows
StreamErrorMessage(error) ==
    IF error.message = <<"http status code: 0">> \/ error.status = "UNKNOWN"
    THEN ConnectionFailed
    ELSE IF error.message # <<>> THEN <<"Error: ">> \o error.message
    ELSE GenericStreamError

-----------------------------------------------------------------------------
(* App.tsx *)

\* App.tsx:76-81 the greeting
Greeting(n) ==
    Msg(MODEL, <<"Hello! I've analyzed your ", ToString(n), " document(s). ...">>, FALSE)

\* A pending handleSendMessage call: the chat and text it captured, the locals
\* fullResponse (App.tsx:162) and finalUsage (geminiService.ts:70), and as history the
\* chunks its stream has delivered and the number n of the submit among those accepted
\* (0: not accepted).
NewTurn(chat, message) ==
    [chat |-> chat, message |-> message, fullResponse |-> <<>>, finalUsage |-> <<>>,
     delivered |-> <<>>, n |-> 0]

NoTurn == NewTurn(NoChat, <<>>)
NoStart == [files |-> <<>>, systemInstruction |-> <<>>, outcome |-> ""]

\* KnowledgeBase (types.ts)
KB(id, name, createdAt, fs) == [id |-> id, name |-> name, createdAt |-> createdAt, files |-> fs]

\* JSON.stringify of an UploadedFile, a KnowledgeBase and the array of them: the own
\* properties in order, strings as they are, numbers as their decimal digits.
StringifyFile(f) ==
    [id |-> f.id, name |-> f.name, content |-> f.content, size |-> Digits(f.size),
     type |-> f.type]
\* StringifyKB writing the documents last to first
StringifyKBReversed(kb) ==
    [id |-> kb.id, name |-> kb.name, createdAt |-> Digits(kb.createdAt),
     files |-> [i \in 1..Len(kb.files) |-> StringifyFile(kb.files[Len(kb.files) + 1 - i])]]
StringifyKB(kb) ==
    [id |-> kb.id, name |-> kb.name, createdAt |-> Digits(kb.createdAt),
     files |-> [i \in 1..Len(kb.files) |-> StringifyFile(kb.files[i])]]
JSONstringify(kbs) ==
    [wellFormed |-> TRUE, array |-> [i \in 1..Len(kbs) |-> StringifyKB(kbs[i])]]

\* JSON.parse of such a text; it throws on a text that is not well-formed
ParseFile(j) ==
    [id |-> j.id, name |-> j.name, content |-> j.content, size |-> ParseDigits(j.size),
     type |-> j.type]
ParseKB(j) ==
    [id |-> j.id, name |-> j.name, createdAt |-> ParseDigits(j.createdAt),
     files |-> [i \in 1..Len(j.files) |-> ParseFile(j.files[i])]]
JSONparseThrows(text) == ~text.wellFormed
JSONparse(text) == [i \in 1..Len(text.array) |-> ParseKB(text.array[i])]

\* A slot content that is no JSON
CorruptText == [wellFormed |-> FALSE, array |-> <<>>]

\* App.tsx:36-45: savedKBs after the mount effect has read the slot
MountedKBs(slot) ==
    IF slot = <<>> THEN <<>>
    ELSE IF JSONparseThrows(slot[1]) THEN <<>>
    ELSE JSONparse(slot[1])

\* What localStorage.setItem can throw, by name and message.  capacity tells why the
\* storage threw: TRUE when the write would exceed the origin's quota.
\* The DOMException of the HTML standard for a full storage area:
QuotaExceededError ==
    [name |-> "QuotaExceededError", message |-> <<"The", "quota", "has been exceeded.">>,
     capacity |-> TRUE]
\* the same condition as WebKit named it before the standard name
LegacyQuotaError ==
    [name |-> "QUOTA_EXCEEDED_ERR", message |-> <<"QUOTA", "_EXCEEDED_ERR: DOM Exception 22">>,
     capacity |-> TRUE]
\* storage disabled by the user's settings
SecurityError ==
    [name |-> "SecurityError", message |-> <<"The operation is insecure.">>,
     capacity |-> FALSE]

\* The outcomes of localStorage.setItem: <<>> (written) or <<error>> (thrown)
SetItemOutcomes == {<<>>, <<QuotaExceededError>>, <<LegacyQuotaError>>, <<SecurityError>>}

\* IsQuotaError looking at the name alone
IsQuotaErrorByName(error) == error.name = "QuotaExceededError"

\* App.tsx:247
IsQuotaError(error) ==
    \/ error.name = "QuotaExceededError"
    \/ \E i \in 1..Len(error.message) : ToLowerCase(error.message[i]) = "quota"

\* App.tsx:211, the name handleInitiateSave proposes
DefaultSaveName == <<"SDK Docs - ", "11/4/2026 02:00 AM">>

\* What the user can type into the name field
SaveNames == {<<" ">>, <<" ", "k", " ">>}

\* The batches the user can pick in the file dialog
Batches == {<<PickReadme, PickGuide>>}

\* The state once App has mounted.  stored is the slot as found; docs are the documents
\* uploaded before the run begins (ids drawn: the number of them).
InitWith(b, stored, docs) ==
    /\ bound = b
    /\ files = docs
    /\ storage = stored
    /\ savedKBs = MountedKBs(stored)
    /\ sessionActive = FALSE
    /\ chatInstance = NoChat
    /\ showSaveInput = FALSE
    /\ saveName = <<>>
    /\ chatState = EmptyChatState
    /\ starts = <<>>
    /\ turns = <<>>
    /\ uploads = <<>>
    /\ now = 1
    /\ nextId = Len(docs)
    /\ saved = <<>>
    /\ nextChat = 0
    /\ chats = <<>>
    /\ sent = 0
    /\ streamed = 0
    /\ apiKey \in BOOLEAN
    /\ last = [op |-> "mount", alert |-> "", turn |-> NoTurn, start |-> NoStart,
               before |-> EmptyChatState, kb |-> <<>>, docs |-> <<>>, error |-> <<>>]

Init ==
    /\ \E docs \in {<<>>, <<DocA, DocB>>} : InitWith(Bound, <<>>, docs)
    /\ dialog = Batches

InitRace ==
    /\ \E docs \in {<<>>, <<DocA, DocB>>} : InitWith(RaceBound, <<>>, docs)
    /\ dialog = Batches

\* The history variable: the segment that ran, the alert() it raised, and for a
\* continuation the pending call it resumed and the chatState it found.
Did(op) ==
    last' = [op |-> op, alert |-> "", turn |-> NoTurn, start |-> NoStart,
             before |-> EmptyChatState, kb |-> <<>>, docs |-> <<>>, error |-> <<>>]
DidAlert(op, text) ==
    last' = [op |-> op, alert |-> text, turn |-> NoTurn, start |-> NoStart,
             before |-> EmptyChatState, kb |-> <<>>, docs |-> <<>>, error |-> <<>>]
DidTurn(op, turn) ==
    last' = [op |-> op, alert |-> "", turn |-> turn, start |-> NoStart,
             before |-> chatState, kb |-> <<>>, docs |-> <<>>, error |-> <<>>]
\* a handler that worked on the saved knowledge base id, the live list being docs
DidKB(op, id, docs) ==
    last' = [op |-> op, alert |-> "", turn |-> NoTurn, start |-> NoStart,
             before |-> chatState, kb |-> id, docs |-> docs, error |-> <<>>]
\* a handler that caught error and alerted text
DidCatch(op, text, error) ==
    last' = [op |-> op, alert |-> text, turn |-> NoTurn, start |-> NoStart,
             before |-> EmptyChatState, kb |-> <<>>, docs |-> <<>>, error |-> <<error>>]
\* a handler that reset the session or the workspace, having seen chatState and files
DidWorkspace(op) ==
    last' = [op |-> op, alert |-> "", turn |-> NoTurn, start |-> NoStart,
             before |-> chatState, kb |-> <<>>, docs |-> files, error |-> <<>>]
DidStart(op, text, p, outcome, before) ==
    last' = [op |-> op, alert |-> text, turn |-> NoTurn,
             start |-> [files |-> p.files, systemInstruction |-> p.systemInstruction,
                        outcome |-> outcome],
             before |-> before,
             kb |-> <<>>, docs |-> <<>>, error |-> <<>>]

\* s without its i-th element
Remove(s, i) == SubSeq(s, 1, i - 1) \o SubSeq(s, i + 1, Len(s))

\* App.tsx:62-67: what a call of handleStartSession holds when it awaits the token
\* estimate: the files of the render it was made in, and the two texts built from them
StartOf(fs) ==
    [files |-> fs,
     knowledgeBase |-> KnowledgeBaseText(fs),
     systemInstruction |-> buildSystemInstruction(KnowledgeBaseText(fs))]

\* handleStartSession without the early return of App.tsx:57
handleStartSessionUnguarded ==
    /\ ~sessionActive
    /\ Len(starts) < bound.starts
    /\ nextChat + Len(starts) < bound.sessions
    /\ chatState' = [chatState EXCEPT !.isLoading = TRUE]
    /\ starts' = Append(starts, StartOf(files))
    /\ Did(IF Len(files) = 0 THEN "start:empty" ELSE "start:begin")
    /\ UNCHANGED <<libraryVars, sessionActive, chatInstance, turns, nextChat, chats, sent, streamed, envVars>>

\* App.tsx:56-60: a click on "Initialize Knowledge Base", up to the first await.
\* The button is rendered while no session is active (App.tsx:453).
handleStartSession ==
    /\ ~sessionActive
    /\ IF Len(files) = 0
       THEN /\ UNCHANGED progVars
            /\ Did("start:empty")
       ELSE /\ Len(starts) < bound.starts
            /\ nextChat + Len(starts) < bound.sessions
            /\ chatState' = [chatState EXCEPT !.isLoading = TRUE]
            /\ starts' = Append(starts, StartOf(files))
            /\ Did("start:begin")
            /\ UNCHANGED <<libraryVars, sessionActive, chatInstance, turns, nextChat, chats, sent, streamed, envVars>>

\* StartSucceeded without `isLoading: false` (App.tsx:83)
StartSucceededStillLoading(p, initialInputTokens, outcome) ==
    /\ chatInstance' = nextChat + 1
    /\ nextChat' = nextChat + 1
    /\ chats' = Append(chats, [config |-> createChatSession(p.knowledgeBase), call |-> p])
    /\ sessionActive' = TRUE
    /\ chatState' = [chatState EXCEPT
            !.messages = <<Greeting(Len(p.files))>>,
            !.streamingText = <<>>,
            !.totalInputTokens = initialInputTokens,
            !.totalOutputTokens = 0]
    /\ DidStart("start:ok", "", p, outcome, EmptyChatState)

\* App.tsx:69-86: createChatSession returned a chat
StartSucceeded(p, initialInputTokens, outcome) ==
    /\ chatInstance' = nextChat + 1
    /\ nextChat' = nextChat + 1
    /\ chats' = Append(chats, [config |-> createChatSession(p.knowledgeBase), call |-> p])
    /\ sessionActive' = TRUE
    /\ chatState' = [chatState EXCEPT
            !.messages = <<Greeting(Len(p.files))>>,
            !.isLoading = FALSE,
            !.streamingText = <<>>,
            !.totalInputTokens = initialInputTokens,
            !.totalOutputTokens = 0]
    /\ DidStart("start:ok", "", p, outcome, EmptyChatState)

\* StartFailed without the setChatState of App.tsx:90
StartFailedStillLoading(p, outcome) ==
    /\ chatState' = chatState
    /\ DidStart("start:failed", "API_KEY is missing. ...", p, outcome, chatState)
    /\ UNCHANGED <<sessionActive, chatInstance, nextChat, chats>>

\* App.tsx:87-92: createChatSession threw
StartFailed(p, outcome) ==
    /\ chatState' = [chatState EXCEPT !.isLoading = FALSE]
    /\ DidStart("start:failed", "API_KEY is missing. ...", p, outcome, chatState)
    /\ UNCHANGED <<sessionActive, chatInstance, nextChat, chats>>

\* geminiService.ts:7-13 and 49-60: createChatSession throws when getClient does
CreateChatSessionThrows == ~apiKey

\* StartResume with an estimateTokenCount that lets the provider's error through to the
\* catch block of handleStartSession
StartResumeCountFatal(i) ==
    LET p == starts[i]
    IN  /\ starts' = Remove(starts, i)
        /\ \E outcome \in CountOutcomes :
              /\ ~apiKey => outcome = "throws"
              /\ IF CreateChatSessionThrows \/ outcome = "throws"
                 THEN StartFailed(p, outcome)
                 ELSE StartSucceeded(p, estimateTokenCount(p.systemInstruction, outcome),
                                     outcome)
        /\ UNCHANGED <<libraryVars, turns, sent, streamed, envVars>>

\* App.tsx:62-92: the continuation of handleStartSession once the token estimate settles
StartResume(i) ==
    LET p == starts[i]
    IN  /\ starts' = Remove(starts, i)
        /\ \E outcome \in CountOutcomes :
              /\ ~apiKey => outcome = "throws"
              /\ IF CreateChatSessionThrows
                 THEN StartFailed(p, outcome)
                 ELSE StartSucceeded(p, estimateTokenCount(p.systemInstruction, outcome),
                                     outcome)
        /\ UNCHANGED <<libraryVars, turns, sent, streamed, envVars>>

\* ResetSession keeping the token totals
ResetSessionKeepsTotals ==
    /\ sessionActive' = FALSE
    /\ chatInstance' = NoChat
    /\ chatState' = [EmptyChatState EXCEPT
            !.totalInputTokens = chatState.totalInputTokens,
            !.totalOutputTokens = chatState.totalOutputTokens]

\* App.tsx:95-106
ResetSession ==
    /\ sessionActive' = FALSE
    /\ chatInstance' = NoChat
    /\ chatState' = EmptyChatState

\* handleReset that also closes the name form, as handleClearWorkspace does
handleResetClosesForm ==
    /\ sessionActive
    /\ ResetSession
    /\ showSaveInput' = FALSE
    /\ saveName' = <<>>
    /\ DidWorkspace("reset")
    /\ UNCHANGED <<files, savedKBs, storage, uploads, now, nextId, saved, starts, turns,
                   nextChat, chats, sent, streamed, envVars>>

\* A click on "Reset & Update Docs", rendered while a session is active (App.tsx:466)
handleReset ==
    /\ sessionActive
    /\ ResetSession
    /\ DidWorkspace("reset")
    /\ UNCHANGED <<libraryVars, starts, turns, nextChat, chats, sent, streamed, envVars>>

\* handleCreateNew without setShowSaveInput(false) and setSaveName('')
handleCreateNewKeepsForm ==
    /\ files' = <<>>
    /\ sessionActive' = FALSE
    /\ chatInstance' = NoChat
    /\ chatState' = EmptyChatState
    /\ DidWorkspace("createNew")
    /\ UNCHANGED <<showSaveInput, saveName, savedKBs, storage, uploads, now, nextId, saved,
                   starts, turns, nextChat, chats, sent, streamed, envVars>>

\* App.tsx:109-127: a click on "Create New Knowledge Base"
handleCreateNew ==
    /\ files' = <<>>
    /\ showSaveInput' = FALSE
    /\ saveName' = <<>>
    /\ sessionActive' = FALSE
    /\ chatInstance' = NoChat
    /\ chatState' = EmptyChatState
    /\ DidWorkspace("createNew")
    /\ UNCHANGED <<savedKBs, storage, uploads, now, nextId, saved, starts, turns, nextChat, chats, sent,
                   streamed, envVars>>

\* The texts the user can have typed into the chat input when submitting.
InputTexts == { <<" ">>, <<" ", "q", " ">> }

\* App.tsx:138-158 and geminiService.ts:68-70: a submit of the chat form with
\* inputMessage = text, up to the await of the stream.  The form is rendered while a
\* session is active (App.tsx:556).
handleSendMessage(text) ==
    /\ sessionActive
    /\ IF Trim(text) = <<>> \/ chatInstance = NoChat \/ chatState.isLoading
       THEN /\ UNCHANGED progVars
            /\ DidTurn("send:ignored", NewTurn(chatInstance, Trim(text)))
       ELSE /\ sent < bound.turns
            /\ chatState' = [chatState EXCEPT
                    !.messages = Append(@, Msg(USER, Trim(text), FALSE)),
                    !.isLoading = TRUE,
                    !.streamingText = <<>>]
            /\ turns' = Append(turns, [NewTurn(chatInstance, Trim(text)) EXCEPT !.n = sent + 1])
            /\ sent' = sent + 1
            /\ DidTurn("send:begin", [NewTurn(chatInstance, Trim(text)) EXCEPT !.n = sent + 1])
            /\ UNCHANGED <<libraryVars, sessionActive, chatInstance, starts, nextChat, chats, streamed, envVars>>

\* geminiService.ts:72-86 with the onChunk callback of App.tsx:164-170: one iteration
\* of the for-await loop over the stream of turn t, delivering chunk c.
\* delivered is history: every chunk the stream has yielded in this turn.
StreamChunk(t, c) ==
    LET turn == turns[t]
        text == c.text
        fullResponse == IF text # <<>> THEN turn.fullResponse \o text ELSE turn.fullResponse
        finalUsage == IF c.usageMetadata # <<>>
                      THEN <<UsageOf(c.usageMetadata[1])>>
                      ELSE turn.finalUsage
    IN  /\ streamed < bound.chunks
        /\ streamed' = streamed + 1
        /\ chatState' = IF text # <<>>
                        THEN [chatState EXCEPT !.streamingText = @ \o text]
                        ELSE chatState
        /\ turns' = [turns EXCEPT ![t] =
                        [turn EXCEPT !.fullResponse = fullResponse,
                                     !.finalUsage = finalUsage,
                                     !.delivered = Append(@, c)]]
        /\ DidTurn("send:chunk", turn)
        /\ UNCHANGED <<libraryVars, sessionActive, chatInstance, starts, nextChat, chats, sent, envVars>>

\* `response.usage?.promptTokenCount || 0` and its candidatesTokenCount twin
UsagePrompt(usage) == IF usage = <<>> THEN 0 ELSE OrZero(usage[1].promptTokenCount)
UsageCandidates(usage) == IF usage = <<>> THEN 0 ELSE OrZero(usage[1].candidatesTokenCount)

\* StreamComplete without `isLoading: false` (App.tsx:182)
StreamCompleteStillLoading(t) ==
    LET turn == turns[t]
    IN  /\ chatState' = [chatState EXCEPT
                !.messages = Append(@, Msg(MODEL, turn.fullResponse, FALSE)),
                !.streamingText = <<>>,
                !.totalInputTokens = @ + UsagePrompt(turn.finalUsage),
                !.totalOutputTokens = @ + UsageCandidates(turn.finalUsage)]
        /\ turns' = Remove(turns, t)
        /\ DidTurn("send:done", turn)
        /\ UNCHANGED <<libraryVars, sessionActive, chatInstance, starts, nextChat, chats, sent, streamed, envVars>>

\* StreamComplete without the additions of App.tsx:184-185
StreamCompleteDropsUsage(t) ==
    LET turn == turns[t]
    IN  /\ chatState' = [chatState EXCEPT
                !.messages = Append(@, Msg(MODEL, turn.fullResponse, FALSE)),
                !.isLoading = FALSE,
                !.streamingText = <<>>]
        /\ turns' = Remove(turns, t)
        /\ DidTurn("send:done", turn)
        /\ UNCHANGED <<libraryVars, sessionActive, chatInstance, starts, nextChat, chats, sent, streamed, envVars>>

\* geminiService.ts:87 and App.tsx:172-187: the stream of turn t ends normally
StreamComplete(t) ==
    LET turn == turns[t]
    IN  /\ chatState' = [chatState EXCEPT
                !.messages = Append(@, Msg(MODEL, turn.fullResponse, FALSE)),
                !.isLoading = FALSE,
                !.streamingText = <<>>,
                !.totalInputTokens = @ + UsagePrompt(turn.finalUsage),
                !.totalOutputTokens = @ + UsageCandidates(turn.finalUsage)]
        /\ turns' = Remove(turns, t)
        /\ DidTurn("send:done", turn)
        /\ UNCHANGED <<libraryVars, sessionActive, chatInstance, starts, nextChat, chats, sent, streamed, envVars>>

\* StreamError without `isLoading: false` (App.tsx:200)
StreamErrorStillLoading(t, error) ==
    LET turn == turns[t]
        errorText == StreamErrorMessage(error)
    IN  /\ chatState' = [chatState EXCEPT
                !.messages = Append(@, Msg(MODEL, errorText, TRUE)),
                !.streamingText = <<>>]
        /\ turns' = Remove(turns, t)
        /\ DidTurn("send:error", turn)
        /\ UNCHANGED <<libraryVars, sessionActive, chatInstance, starts, nextChat, chats, sent, streamed, envVars>>

\* StreamError without `streamingText: ''` (App.tsx:201)
StreamErrorKeepsPartial(t, error) ==
    LET turn == turns[t]
        errorText == StreamErrorMessage(error)
    IN  /\ chatState' = [chatState EXCEPT
                !.messages = Append(@, Msg(MODEL, errorText, TRUE)),
                !.isLoading = FALSE]
        /\ turns' = Remove(turns, t)
        /\ DidTurn("send:error", turn)
        /\ UNCHANGED <<libraryVars, sessionActive, chatInstance, starts, nextChat, chats, sent, streamed, envVars>>

\* geminiService.ts:88-100 and App.tsx:189-204: chat.sendMessageStream rejects, or the
\* stream of turn t throws after the chunks delivered so far
StreamError(t, error) ==
    LET turn == turns[t]
        errorText == StreamErrorMessage(error)
    IN  /\ chatState' = [chatState EXCEPT
                !.messages = Append(@, Msg(MODEL, errorText, TRUE)),
                !.isLoading = FALSE,
                !.streamingText = <<>>]
        /\ turns' = Remove(turns, t)
        /\ DidTurn("send:error", turn)
        /\ UNCHANGED <<libraryVars, sessionActive, chatInstance, starts, nextChat, chats, sent, streamed, envVars>>

-----------------------------------------------------------------------------
(* App.tsx: the saved knowledge bases and the live document list *)

\* App.tsx:209-213: "Save as Knowledge Base", rendered while files is non-empty and the
\* name form is closed (App.tsx:351-353)
handleInitiateSave ==
    /\ Len(files) > 0
    /\ ~showSaveInput
    /\ saveName' = DefaultSaveName
    /\ showSaveInput' = TRUE
    /\ Did("save:initiate")
    /\ UNCHANGED <<files, savedKBs, storage, uploads, now, nextId, saved, chatVars, envVars>>

\* App.tsx:368: typing into the name field, rendered while the name form is open
setSaveName(value) ==
    /\ Len(files) > 0
    /\ showSaveInput
    /\ saveName' = value
    /\ Did("save:type")
    /\ UNCHANGED <<files, savedKBs, storage, showSaveInput, uploads, now, nextId,
                   saved, chatVars, envVars>>

\* What Date.now() can read at the next save after having read t: a later time, or,
\* in the runs where the clock repeats, the same time again.
ClockAfter(t) == IF bound.clock = "advances" THEN {t + 1} ELSE {t, t + 1}

\* App.tsx:221-243: the try block of handleConfirmSave when setItem returns
SaveSucceeded(newKB, updatedKBs) ==
    /\ storage' = <<JSONstringify(updatedKBs)>>
    /\ savedKBs' = updatedKBs
    /\ showSaveInput' = FALSE
    /\ saveName' = <<>>
    /\ saved' = Append(saved, [id |-> newKB.id, files |-> files])
    /\ last' = [op |-> "save:ok", alert |-> "Knowledge Base saved successfully!",
                turn |-> NoTurn, start |-> NoStart, before |-> EmptyChatState,
                kb |-> newKB.id, docs |-> files,
                error |-> <<>>]

\* App.tsx:244-252: the catch block of handleConfirmSave
SaveFailed(error) ==
    /\ DidCatch("save:failed",
                IF IsQuotaError(error)
                THEN "Cannot save Knowledge Base: Storage limit exceeded."
                ELSE "Failed to save Knowledge Base. Please try again.",
                error)
    /\ UNCHANGED <<storage, savedKBs, showSaveInput, saveName, saved>>

\* handleConfirmSave without the test of App.tsx:216-219
handleConfirmSaveAnyName(outcome) ==
    /\ Len(files) > 0
    /\ showSaveInput
    /\ now <= bound.saves
    /\ Len(saved) < bound.saves
    /\ now' \in ClockAfter(now)
    /\ LET newKB == KB(Digits(now), Trim(saveName), now, files)
           updatedKBs == Append(savedKBs, newKB)
       IN  IF outcome = <<>>
           THEN SaveSucceeded(newKB, updatedKBs)
           ELSE SaveFailed(outcome[1])
    /\ UNCHANGED <<files, uploads, nextId, chatVars, envVars>>

\* handleConfirmSave with setSavedKBs before localStorage.setItem
handleConfirmSaveStateFirst(outcome) ==
    /\ Len(files) > 0
    /\ showSaveInput
    /\ now <= bound.saves
    /\ Len(saved) < bound.saves
    /\ now' \in ClockAfter(now)
    /\ IF Trim(saveName) = <<>>
       THEN /\ DidAlert("save:blank", "Please enter a name for the Knowledge Base.")
            /\ UNCHANGED <<storage, savedKBs, showSaveInput, saveName, saved>>
       ELSE LET newKB == KB(Digits(now), Trim(saveName), now, files)
                updatedKBs == Append(savedKBs, newKB)
            IN  IF outcome = <<>>
                THEN SaveSucceeded(newKB, updatedKBs)
                ELSE /\ savedKBs' = updatedKBs
                     /\ DidCatch("save:failed",
                                 IF IsQuotaError(outcome[1])
                                 THEN "Cannot save Knowledge Base: Storage limit exceeded."
                                 ELSE "Failed to save Knowledge Base. Please try again.",
                                 outcome[1])
                     /\ UNCHANGED <<storage, showSaveInput, saveName, saved>>
    /\ UNCHANGED <<files, uploads, nextId, chatVars, envVars>>

\* App.tsx:215-253: "Save", rendered while the name form is open.  Every path ends in
\* an alert(), which blocks until dismissed; the next save reads the clock after that.
handleConfirmSave(outcome) ==
    /\ Len(files) > 0
    /\ showSaveInput
    /\ now <= bound.saves
    /\ Len(saved) < bound.saves
    /\ now' \in ClockAfter(now)
    /\ IF Trim(saveName) = <<>>
       THEN /\ DidAlert("save:blank", "Please enter a name for the Knowledge Base.")
            /\ UNCHANGED <<storage, savedKBs, showSaveInput, saveName, saved>>
       ELSE LET newKB == KB(Digits(now), Trim(saveName), now, files)
                updatedKBs == Append(savedKBs, newKB)
            IN  IF outcome = <<>>
                THEN SaveSucceeded(newKB, updatedKBs)
                ELSE SaveFailed(outcome[1])
    /\ UNCHANGED <<files, uploads, nextId, chatVars, envVars>>

\* App.tsx:255-258
handleCancelSave ==
    /\ Len(files) > 0
    /\ showSaveInput
    /\ showSaveInput' = FALSE
    /\ saveName' = <<>>
    /\ Did("save:cancel")
    /\ UNCHANGED <<files, savedKBs, storage, uploads, now, nextId, saved, chatVars, envVars>>

\* handleLoadKB without the handleReset() of App.tsx:263
handleLoadKBKeepsSession(k, confirmed) ==
    LET kb == savedKBs[k]
    IN  /\ IF sessionActive /\ ~confirmed
           THEN /\ UNCHANGED files
                /\ Did("load:declined")
           ELSE /\ files' = kb.files
                /\ DidKB("load", kb.id, files)
        /\ UNCHANGED <<savedKBs, storage, showSaveInput, saveName, uploads, now, nextId,
                       saved, chatVars, envVars>>

\* App.tsx:260-267: a click on saved knowledge base k; confirmed is the answer to the
\* confirm() asked while a session is active
handleLoadKB(k, confirmed) ==
    LET kb == savedKBs[k]
    IN  /\ IF sessionActive /\ ~confirmed
           THEN /\ UNCHANGED <<files, sessionActive, chatInstance, chatState>>
                /\ Did("load:declined")
           ELSE /\ IF sessionActive
                   THEN ResetSession
                   ELSE UNCHANGED <<sessionActive, chatInstance, chatState>>
                /\ files' = kb.files
                /\ DidKB("load", kb.id, files)
        /\ UNCHANGED <<savedKBs, storage, showSaveInput, saveName, uploads, now, nextId,
                       saved, starts, turns, nextChat, chats, sent, streamed, envVars>>

\* handleDeleteKB with setSavedKBs before localStorage.setItem
handleDeleteKBIndexFirst(k, confirmed, outcome) ==
    LET id == savedKBs[k].id
        updated == Keep(savedKBs, {i \in 1..Len(savedKBs) : savedKBs[i].id # id})
    IN  /\ IF ~confirmed
           THEN /\ UNCHANGED <<savedKBs, storage>>
                /\ Did("delete:declined")
           ELSE IF outcome = <<>>
           THEN /\ storage' = <<JSONstringify(updated)>>
                /\ savedKBs' = updated
                /\ DidKB("delete:ok", id, files)
           ELSE /\ savedKBs' = updated
                /\ UNCHANGED storage
                /\ DidCatch("delete:failed", "Failed to delete Knowledge Base.", outcome[1])
        /\ UNCHANGED <<files, showSaveInput, saveName, uploads, now, nextId, saved, chatVars,
                       envVars>>

\* App.tsx:269-283: a click on the bin of saved knowledge base k
handleDeleteKB(k, confirmed, outcome) ==
    LET id == savedKBs[k].id
        updated == Keep(savedKBs, {i \in 1..Len(savedKBs) : savedKBs[i].id # id})
    IN  /\ IF ~confirmed
           THEN /\ UNCHANGED <<savedKBs, storage>>
                /\ Did("delete:declined")
           ELSE IF outcome = <<>>
           THEN /\ storage' = <<JSONstringify(updated)>>
                /\ savedKBs' = updated
                /\ DidKB("delete:ok", id, files)
           ELSE /\ UNCHANGED <<savedKBs, storage>>
                /\ DidCatch("delete:failed", "Failed to delete Knowledge Base.", outcome[1])
        /\ UNCHANGED <<files, showSaveInput, saveName, uploads, now, nextId, saved, chatVars,
                       envVars>>

\* App.tsx:130-136: "Clear", rendered while files is non-empty and no session is active
\* (FileUpload.tsx:143)
handleClearWorkspace(confirmed) ==
    /\ Len(files) > 0
    /\ ~sessionActive
    /\ IF confirmed
       THEN /\ files' = <<>>
            /\ showSaveInput' = FALSE
            /\ saveName' = <<>>
            /\ Did("clear")
       ELSE /\ UNCHANGED <<files, showSaveInput, saveName>>
            /\ Did("clear:declined")
    /\ UNCHANGED <<savedKBs, storage, uploads, now, nextId, saved, chatVars, envVars>>

\* FileUpload.tsx:108-110: the bin of the document at position i, rendered while no
\* session is active (FileUpload.tsx:181)
removeFile(i) ==
    LET id == files[i].id
    IN  /\ ~sessionActive
        /\ files' = Keep(files, {j \in 1..Len(files) : files[j].id # id})
        /\ Did("remove")
        /\ UNCHANGED <<savedKBs, storage, showSaveInput, saveName, uploads, now, nextId,
                       saved, chatVars, envVars>>

\* FileUpload.tsx:27-100: the user picks fileList in the file dialog, enabled while no
\* session is active (FileUpload.tsx:135); the loop decodes the files one after the other.
\* What each decode yields is fixed by the file, so newFiles is computed here.
handleFileChange(fileList) ==
    \E order \in CompletionOrders :
        LET newFiles == NewFiles(fileList, nextId, order)
        IN  /\ ~sessionActive
            /\ Len(uploads) < bound.uploads
            /\ nextId + Len(newFiles) <= bound.docs
            /\ uploads' = Append(uploads, [fileList |-> fileList, newFiles |-> newFiles,
                                           alerts |-> ZipAlerts(fileList)])
            /\ nextId' = nextId + Len(newFiles)
            /\ Did("upload:begin")
            /\ UNCHANGED <<files, savedKBs, storage, showSaveInput, saveName, now, saved,
                           chatVars, envVars>>

\* FileUpload.tsx:102: setFiles(prev => [...prev, ...newFiles]) once the loop is done
UploadDone(u) ==
    /\ files' = files \o uploads[u].newFiles
    /\ uploads' = Remove(uploads, u)
    /\ last' = [op |-> "upload:done", alert |-> "", turn |-> NoTurn, start |-> NoStart,
                before |-> EmptyChatState, kb |-> <<>>, docs |-> files, error |-> <<>>]
    /\ UNCHANGED <<savedKBs, storage, showSaveInput, saveName, now, nextId, saved, chatVars,
                   envVars>>

\* App.tsx:11-45: the page is loaded again.  Every useState cell is initialised anew, the
\* calls that were pending die with the old page, and the mount effect reads the slot.
AppMount ==
    /\ files' = <<>>
    /\ savedKBs' = MountedKBs(storage)
    /\ sessionActive' = FALSE
    /\ chatInstance' = NoChat
    /\ showSaveInput' = FALSE
    /\ saveName' = <<>>
    /\ chatState' = EmptyChatState
    /\ starts' = <<>>
    /\ turns' = <<>>
    /\ uploads' = <<>>
    /\ Did("mount")
    /\ UNCHANGED <<storage, now, nextId, nextChat, chats, sent, streamed, saved, envVars>>

Next ==
    \/ handleStartSession
    \/ \E i \in 1..Len(starts) : StartResume(i)
    \/ handleReset
    \/ handleCreateNew
    \/ \E text \in InputTexts : handleSendMessage(text)
    \/ \E t \in 1..Len(turns), c \in Chunks : StreamChunk(t, c)
    \/ \E t \in 1..Len(turns) : StreamComplete(t)
    \/ \E t \in 1..Len(turns), error \in StreamErrors : StreamError(t, error)

Spec == Init /\ [][Next]_vars

SpecRace == InitRace /\ [][Next]_vars

\* The runs in which a second session is started after the first was reset, one call of
\* handleStartSession pending at a time
RestartBound == [RaceBound EXCEPT !.starts = MaxStarts]

InitRestart ==
    /\ InitWith(RestartBound, <<>>, <<DocA, DocB>>)
    /\ apiKey
    /\ dialog = Batches

SpecRestart == InitRestart /\ [][Next]_vars

\* The provider settles every call: a pending stream eventually ends or throws, and a
\* pending token estimate eventually settles.  The event loop then runs the continuation.
StreamSettles ==
    \E t \in 1..Len(turns) :
        StreamComplete(t) \/ \E error \in StreamErrors : StreamError(t, error)
EstimateSettles == \E i \in 1..Len(starts) : StartResume(i)

\* The same runs with one turn and shorter streams
SettlingBound == [Bound EXCEPT !.turns = SettlingTurns, !.chunks = RaceChunks]

InitSettling ==
    /\ \E docs \in {<<>>, <<DocA, DocB>>} : InitWith(SettlingBound, <<>>, docs)
    /\ dialog = Batches

SpecSettling ==
    InitSettling /\ [][Next]_vars /\ WF_vars(StreamSettles) /\ WF_vars(EstimateSettles)

\* The library: uploads, the live list, saves, loads and deletes, over page loads.
\* The slot is absent or holds a text that is no JSON when the first page load finds it.
InitLibrary ==
    /\ \E stored \in {<<>>, <<CorruptText>>} : InitWith(Bound, stored, <<>>)
    /\ apiKey
    /\ dialog = Batches

NextLibrary ==
    \/ \E fileList \in dialog : handleFileChange(fileList)
    \/ \E u \in 1..Len(uploads) : UploadDone(u)
    \/ \E i \in 1..Len(files) : removeFile(i)
    \/ \E confirmed \in BOOLEAN : handleClearWorkspace(confirmed)
    \/ handleInitiateSave
    \/ \E value \in SaveNames : setSaveName(value)
    \/ \E outcome \in SetItemOutcomes : handleConfirmSave(outcome)
    \/ handleCancelSave
    \/ \E k \in 1..Len(savedKBs), confirmed \in BOOLEAN : handleLoadKB(k, confirmed)
    \/ \E k \in 1..Len(savedKBs), confirmed \in BOOLEAN, outcome \in SetItemOutcomes :
          handleDeleteKB(k, confirmed, outcome)
    \/ handleCreateNew
    \/ AppMount

SpecLibrary == InitLibrary /\ [][NextLibrary]_vars

\* The workspace: two documents have been uploaded; sessions start and are reset while
\* documents are removed and knowledge bases are saved under the proposed name and loaded.
InitWorkspace ==
    /\ InitWith(Bound, <<>>, <<DocA, DocB>>)
    /\ apiKey
    /\ dialog = Batches

NextWorkspace ==
    \/ \E i \in 1..Len(files) : removeFile(i)
    \/ handleInitiateSave
    \/ \E outcome \in SetItemOutcomes : handleConfirmSave(outcome)
    \/ \E k \in 1..Len(savedKBs), confirmed \in BOOLEAN : handleLoadKB(k, confirmed)
    \/ handleCreateNew
    \/ handleStartSession
    \/ \E i \in 1..Len(starts) : StartResume(i)
    \/ handleReset

SpecWorkspace == InitWorkspace /\ [][NextWorkspace]_vars

\* The uploads: batches with archives are picked and decoded at once while documents
\* are removed and cleared.
PickedBatches == {<<PickReadme, PickArchive>>, <<PickGuide>>}

InitUpload ==
    /\ InitWith(UploadBound, <<>>, <<>>)
    /\ apiKey
    /\ dialog = PickedBatches

NextUpload ==
    \/ \E fileList \in dialog : handleFileChange(fileList)
    \/ \E u \in 1..Len(uploads) : UploadDone(u)
    \/ \E i \in 1..Len(files) : removeFile(i)
    \/ \E confirmed \in BOOLEAN : handleClearWorkspace(confirmed)

SpecUpload == InitUpload /\ [][NextUpload]_vars

\* The file dialog: in each run the user selects among the batches of one dialog, which
\* hold archives with entries of every kind.
Dialogs ==
    { {<<PickGuide, PickBundle>>, <<PickEmptyArchive, PickNested>>},
      {<<PickReadme, PickDamaged, PickGuide>>, <<PickLocked, PickGuide>>},
      {<<PickReadme, PickBroken, PickGuide>>} }

InitPick ==
    /\ InitWith(UploadBound, <<>>, <<>>)
    /\ apiKey
    /\ dialog \in Dialogs

SpecPick == InitPick /\ [][NextUpload]_vars

\* The media types a picked file can declare: none, a text type, a binary type and the
\* two types in use for zip archives
MediaTypes ==
    { <<>>, <<"text", "/", "plain">>, <<"application", "/", "octet-stream">>,
      <<"application", "/", "zip">>, <<"application", "/", "x-", "zip", "-compressed">> }

\* A readable text file of two characters and three bytes with the given extension,
\* declaring the given media type
TextPick(ext, type) ==
    [name |-> <<"file", ".", ext>>, type |-> type, size |-> 3, text |-> <<"e", "x">>,
     readable |-> TRUE, archive |-> [opens |-> FALSE, entries |-> <<>>]]

\* Single files: in each run the user uploads one file of an allow-listed extension,
\* once or several times.
InitText ==
    /\ InitWith(UploadBound, <<>>, <<>>)
    /\ apiKey
    /\ \E ext \in TEXT_EXTENSIONS, type \in MediaTypes : dialog = {<<TextPick(ext, type)>>}

SpecText == InitText /\ [][NextUpload]_vars

\* Assembly: sessions are started, reset and started again while guide.txt is uploaded,
\* once or twice, and documents are removed in between.
AssembleBound == [Bound EXCEPT !.sessions = RaceSessions]

InitAssemble ==
    /\ \E docs \in {<<>>, <<DocA, DocB>>} : InitWith(AssembleBound, <<>>, docs)
    /\ apiKey
    /\ dialog = {<<PickGuide>>}

NextAssemble ==
    \/ \E fileList \in dialog : handleFileChange(fileList)
    \/ \E u \in 1..Len(uploads) : UploadDone(u)
    \/ \E i \in 1..Len(files) : removeFile(i)
    \/ handleStartSession
    \/ \E i \in 1..Len(starts) : StartResume(i)
    \/ handleReset

SpecAssemble == InitAssemble /\ [][NextAssemble]_vars

\* The library in the runs where the clock repeats
InitClock ==
    /\ InitWith(ClockBound, <<>>, <<>>)
    /\ apiKey
    /\ dialog = Batches

SpecClock == InitClock /\ [][NextLibrary]_vars

-----------------------------------------------------------------------------
(* Claims *)

Messages == chatState.messages
LastMessage == Messages[Len(Messages)]

\* the turns pending on chat handle h
PendingOn(h) == {t \in 1..Len(turns) : turns[t].chat = h}

\* C1: at most one streaming exchange is in flight on the active chat handle, in every
\* reachable state.
C1_OneExchangeInFlight ==
    chatInstance # NoChat => Cardinality(PendingOn(chatInstance)) <= 1

\* C2: while a session stays active (no reset or fullReset in between), neither token
\* counter decreases from one state to the next.
C2_CountersNeverDecrease ==
    [][(sessionActive /\ sessionActive') =>
          /\ chatState'.totalInputTokens >= chatState.totalInputTokens
          /\ chatState'.totalOutputTokens >= chatState.totalOutputTokens]_vars

\* C3: a failed turn leaves both token counters as they were, appends exactly one MODEL
\* message flagged isError to the messages it found (so the USER message stays), and
\* clears streamingText.
C3_FailedTurn ==
    last.op = "send:error" =>
        /\ chatState.totalInputTokens = last.before.totalInputTokens
        /\ chatState.totalOutputTokens = last.before.totalOutputTokens
        /\ Len(Messages) = Len(last.before.messages) + 1
        /\ SubSeq(Messages, 1, Len(Messages) - 1) = last.before.messages
        /\ LastMessage.role = MODEL
        /\ LastMessage.isError
        /\ chatState.streamingText = <<>>
        /\ ~chatState.isLoading

\* a turn failed after a fragment had arrived, and its USER message is still there
C3_Witness ==
    /\ last.op = "send:error"
    /\ last.turn.delivered # <<>>
    /\ Len(Messages) >= 2
    /\ Messages[Len(Messages) - 1] = Msg(USER, last.turn.message, FALSE)

\* what a stream delivered: its non-empty fragments in delivery order
FragmentsText(delivered) == Concat([i \in 1..Len(delivered) |-> delivered[i].text])

RECURSIVE ReportedUsage(_)
\* the usage the provider reported last in a stream, <<>> when it reported none
ReportedUsage(delivered) ==
    IF delivered = <<>> THEN <<>>
    ELSE IF delivered[Len(delivered)].usageMetadata # <<>>
         THEN delivered[Len(delivered)].usageMetadata
         ELSE ReportedUsage(SubSeq(delivered, 1, Len(delivered) - 1))

ReportedCount(n) == IF n = Undefined THEN 0 ELSE n

\* C4: when a stream completes, exactly one non-error MODEL message is appended, its text
\* the fragments of that turn in delivery order; streamingText is cleared; each counter
\* grows by the reported count, or by zero when none was reported.
C4_CompletedTurn ==
    last.op = "send:done" =>
        LET delivered == last.turn.delivered
            usage == ReportedUsage(delivered)
        IN  /\ Messages = Append(last.before.messages,
                                 Msg(MODEL, FragmentsText(delivered), FALSE))
            /\ chatState.streamingText = <<>>
            /\ chatState.totalInputTokens = last.before.totalInputTokens +
                  (IF usage = <<>> THEN 0 ELSE ReportedCount(usage[1].promptTokenCount))
            /\ chatState.totalOutputTokens = last.before.totalOutputTokens +
                  (IF usage = <<>> THEN 0 ELSE ReportedCount(usage[1].candidatesTokenCount))

\* a stream of two fragments completed and reported usage
C4_Witness ==
    /\ last.op = "send:done"
    /\ LastMessage.text = <<"a", "b">>
    /\ chatState.totalInputTokens > last.before.totalInputTokens

\* C5: a start never completes successfully while a session is already active.
C5_NoStartWhileActive ==
    [][last'.op = "start:ok" => ~sessionActive]_vars

\* C6: after a successful start the session is active, messages is exactly the greeting
\* naming the number of documents the context was built from, totalOutputTokens is 0,
\* totalInputTokens is the estimate returned for the instruction built from those
\* documents, streamingText is empty and isLoading is false.
C6_AfterStart ==
    last.op = "start:ok" =>
        LET docs == last.start.files
            instruction == buildSystemInstruction(KnowledgeBaseText(docs))
        IN  /\ sessionActive
            /\ chatInstance # NoChat
            /\ Messages = <<Greeting(Len(docs))>>
            /\ chatState.totalOutputTokens = 0
            /\ chatState.totalInputTokens =
                  (IF last.start.outcome = "ok" THEN CountTokens(instruction) ELSE 0)
            /\ chatState.streamingText = <<>>
            /\ ~chatState.isLoading

\* a start succeeded with a counted instruction
C6_Witness ==
    /\ last.op = "start:ok"
    /\ last.start.outcome = "ok"
    /\ Len(last.start.files) = 2
    /\ chatState.totalInputTokens > 0

\* C7: after handleReset the session is inactive, the chat handle is null, and chatState
\* is empty: no messages, no streaming text, not loading, both counters 0.
C7_AfterReset ==
    last.op = "reset" =>
        /\ ~sessionActive
        /\ chatInstance = NoChat
        /\ Messages = <<>>
        /\ chatState.streamingText = <<>>
        /\ ~chatState.isLoading
        /\ chatState.totalInputTokens = 0
        /\ chatState.totalOutputTokens = 0

\* a session was reset while one of its turns was streaming
C7_Witness ==
    /\ last.op = "reset"
    /\ turns # <<>>
    /\ turns[1].delivered # <<>>

\* C8: when createChatSession throws, no session is left: sessionActive is false, the
\* chat handle is null, messages and both counters are what the continuation found, and
\* isLoading is false.
C8_FailedStart ==
    last.op = "start:failed" =>
        /\ ~sessionActive
        /\ chatInstance = NoChat
        /\ Messages = last.before.messages
        /\ chatState.totalInputTokens = last.before.totalInputTokens
        /\ chatState.totalOutputTokens = last.before.totalOutputTokens
        /\ ~chatState.isLoading

\* a start failed after it had set the busy flag
C8_Witness ==
    /\ last.op = "start:failed"
    /\ last.before.isLoading
    /\ last.start.files # <<>>

\* C9: handleStartSession run while files is empty changes no state: no busy flag, no
\* session, no messages, no counters, no pending provider call.
C9_EmptyStartIsNoop ==
    [][(files = <<>> /\ last'.op \in {"start:empty", "start:begin"}) =>
          UNCHANGED progVars]_vars

\* handleStartSession ran on an empty document list
C9_Witness ==
    /\ last.op = "start:empty"
    /\ files = <<>>
    /\ starts = <<>>

\* the document list passed to the save that made the record id
SavedDocs(id) == saved[CHOOSE i \in 1..Len(saved) : saved[i].id = id].files

\* C10: save then load round-trips: every saved record holds, at all times and over page
\* loads, the document list that was passed to its save, and a load of a record makes the
\* live list equal to that list, whatever was uploaded, removed, cleared, created anew,
\* saved or deleted in between.
C10_SaveLoadRoundTrip ==
    /\ \A k \in 1..Len(savedKBs) :
          /\ \E i \in 1..Len(saved) : saved[i].id = savedKBs[k].id
          /\ savedKBs[k].files = SavedDocs(savedKBs[k].id)
    /\ last.op = "load" =>
          /\ \E i \in 1..Len(saved) : saved[i].id = last.kb
          /\ files = SavedDocs(last.kb)

\* a record saved in this run with two documents is loaded after another save, the live
\* list having been changed since
C10_Witness ==
    /\ last.op = "load"
    /\ last.kb = Digits(1)
    /\ Len(saved) >= 2
    /\ last.docs # files
    /\ Len(files) = 2

\* C11: save writes the slot before the in-memory index: when the write throws, no
\* record is added, savedKBs and the slot are what they were, and the alert names the
\* storage limit exactly when the storage threw for capacity; at all times the in-memory
\* index holds nothing that the slot does not.
C11_FailedSave ==
    [][/\ last'.op = "save:failed" =>
            /\ UNCHANGED <<savedKBs, storage, files>>
            /\ last'.alert = IF last'.error[1].capacity
                             THEN "Cannot save Knowledge Base: Storage limit exceeded."
                             ELSE "Failed to save Knowledge Base. Please try again."
       /\ savedKBs' = MountedKBs(storage')]_vars

\* a save fails for capacity, through the pre-standard error, with a record already saved
C11_Witness ==
    /\ last.op = "save:failed"
    /\ last.error = <<LegacyQuotaError>>
    /\ savedKBs # <<>>

\* C12: save enforces its preconditions: a record is added only when the trimmed name is
\* not blank and the live list is not empty, no saved record ever has an empty document
\* list or a blank name, and a save attempt with a blank name changes neither the saved
\* list nor the slot.
C12_SavePreconditions ==
    [][/\ savedKBs' # savedKBs /\ Len(savedKBs') > Len(savedKBs) =>
            /\ last'.op = "save:ok"
            /\ Trim(saveName) # <<>>
            /\ files # <<>>
       /\ last'.op = "save:blank" => UNCHANGED <<savedKBs, storage>>
       /\ \A k \in 1..Len(savedKBs') :
            /\ savedKBs'[k].files # <<>>
            /\ Trim(savedKBs'[k].name) # <<>>]_vars

\* a save with a name of white space only is attempted while a record exists
C12_Witness ==
    /\ last.op = "save:blank"
    /\ saveName = <<" ">>
    /\ showSaveInput
    /\ savedKBs # <<>>

\* C13: delete removes exactly one record, the one with the id clicked: after a
\* successful handleDeleteKB the saved list is the list before without one element, the
\* others in their order, and the slot holds that list.
C13_DeleteRemovesOne ==
    [][last'.op = "delete:ok" =>
          /\ \E k \in 1..Len(savedKBs) :
                /\ savedKBs[k].id = last'.kb
                /\ savedKBs' = Remove(savedKBs, k)
          /\ storage' = <<JSONstringify(savedKBs')>>]_vars

\* C14: delete writes the slot before the in-memory index: when the write throws, the
\* saved list and the slot are what they were.
C14_FailedDelete ==
    [][last'.op = "delete:failed" => UNCHANGED <<savedKBs, storage, files>>]_vars

\* a delete fails with two records saved
C14_Witness ==
    /\ last.op = "delete:failed"
    /\ Len(savedKBs) = 2
    /\ storage = <<JSONstringify(savedKBs)>>

\* C15: reset is narrower than a workspace wipe: handleReset leaves the live document
\* list, the saved knowledge bases, the slot and the name form as they are.
C15_ResetKeepsWorkspace ==
    [][last'.op = "reset" =>
          UNCHANGED <<files, savedKBs, storage, showSaveInput, saveName>>]_vars

\* a session is reset while documents are loaded, a record is saved and the name form is open
C15_Witness ==
    /\ last.op = "reset"
    /\ last.before.messages # <<>>
    /\ files # <<>>
    /\ savedKBs # <<>>
    /\ showSaveInput
    /\ saveName # <<>>

\* C16: handleCreateNew does what handleReset does, empties the live document list and
\* clears the name form, and leaves the saved knowledge bases and the slot as they are.
C16_CreateNew ==
    [][last'.op = "createNew" =>
          /\ ~sessionActive'
          /\ chatInstance' = NoChat
          /\ chatState' = EmptyChatState
          /\ files' = <<>>
          /\ ~showSaveInput'
          /\ saveName' = <<>>
          /\ UNCHANGED <<savedKBs, storage>>]_vars

\* a workspace with an active session, documents, a saved record and a name typed is wiped
C16_Witness ==
    /\ last.op = "createNew"
    /\ last.before.messages # <<>>
    /\ last.before.totalInputTokens > 0
    /\ last.docs # <<>>
    /\ savedKBs # <<>>
    /\ storage = <<JSONstringify(savedKBs)>>

\* C17: a load never replaces the documents under an active session: with a session
\* active, a confirmed load resets the session and then replaces the live list, a
\* declined one changes nothing; after every load that went through no session is active.
C17_LoadResetsSession ==
    [][/\ last'.op = "load" =>
            /\ ~sessionActive'
            /\ chatInstance' = NoChat
            /\ sessionActive => chatState' = EmptyChatState
            /\ \E k \in 1..Len(savedKBs) : files' = savedKBs[k].files /\ savedKBs[k].id = last'.kb
       /\ last'.op = "load:declined" => sessionActive /\ UNCHANGED progVars]_vars

\* a load went through that replaced the live list while messages were shown
C17_Witness ==
    /\ last.op = "load"
    /\ last.before.messages # <<>>
    /\ last.docs # files
    /\ chatState = EmptyChatState

\* C18: a stream error is fatal to one turn only: the failure of a turn changes neither
\* sessionActive nor the chat handle and leaves isLoading false, so the session the
\* turn was sent on is still active; a submission of a non-blank text that follows is
\* accepted, appended as a USER message and sent on that same chat handle.
C18_ErrorKeepsSession ==
    [][/\ last'.op = "send:error" =>
            /\ UNCHANGED <<sessionActive, chatInstance>>
            /\ ~chatState'.isLoading
            /\ last'.turn.chat = chatInstance => sessionActive'
       /\ ( /\ last.op = "send:error"
            /\ last.turn.chat = chatInstance
            /\ last'.op \in {"send:begin", "send:ignored"}
            /\ last'.turn.message # <<>> ) =>
            /\ last'.op = "send:begin"
            /\ turns'[Len(turns')].chat = last.turn.chat
            /\ chatState'.messages =
                  Append(chatState.messages, Msg(USER, last'.turn.message, FALSE))
            /\ chatState'.isLoading]_vars

\* a text was submitted and sent right after the error message of a failed turn
C18_Witness ==
    /\ last.op = "send:begin"
    /\ Len(Messages) >= 3
    /\ Messages[Len(Messages) - 1].isError
    /\ LastMessage = Msg(USER, <<"q">>, FALSE)
    /\ turns # <<>>
    /\ turns[Len(turns)].chat = chatInstance
    /\ sessionActive

\* C19: for the duration of one turn the streaming buffer is append-only: while a turn
\* is pending, from its submission to its completion or failure, streamingText is the
\* concatenation, in delivery order, of the fragments the turn has delivered so far (a
\* prefix of the turn's final text), and nothing but the end of the turn clears it.
C19_BufferAppendOnly ==
    \A t \in 1..Len(turns) :
        /\ chatState.streamingText = FragmentsText(turns[t].delivered)
        /\ chatState.streamingText = turns[t].fullResponse

\* the name and the content of each document of a list, in its order
NamesAndContents(docs) ==
    [i \in 1..Len(docs) |-> [name |-> docs[i].name, content |-> docs[i].content]]

\* what a batch of readable text files and archives holds, in the order of the files and,
\* within an archive, in the order its entries are enumerated in
RECURSIVE EnumerationOrder(_)
EnumerationOrder(fileList) ==
    IF fileList = <<>> THEN <<>>
    ELSE LET file == Head(fileList)
             kept == SelectedEntries(file.archive.entries)
         IN  (IF file.archive.opens
              THEN [i \in 1..Len(kept) |-> [name |-> kept[i].name, content |-> kept[i].text]]
              ELSE <<[name |-> file.name, content |-> file.text]>>)
             \o EnumerationOrder(Tail(fileList))

\* C20: the Normalizer appends and preserves order: when an upload batch completes, the
\* live list is the list of that moment followed by the batch's new documents, which
\* follow the order of the batch's files and, within an archive, the order of its
\* entries, whatever order the decodes completed in and whatever other batch is pending.
C20_UploadAppendsInOrder ==
    [][last'.op = "upload:done" =>
          \E u \in 1..Len(uploads) :
              /\ uploads' = Remove(uploads, u)
              /\ files' = files \o uploads[u].newFiles
              /\ NamesAndContents(uploads[u].newFiles) =
                    EnumerationOrder(uploads[u].fileList)]_vars

\* a batch with an archive completes after a batch picked later did: its documents follow
\* the document already there, a.py before src/b.ts although src/b.ts was decoded first
C20_Witness ==
    /\ last.op = "upload:done"
    /\ last.docs # <<>>
    /\ Len(files) = 4
    /\ files[1].id = RandomId(4)
    /\ files[2].name = PickReadme.name
    /\ files[3].name = <<"a", ".", "py">>
    /\ files[4].name = <<"src", "/", "b", ".", "ts">>
    /\ files[3].id = RandomId(3)
    /\ files[4].id = RandomId(2)

RECURSIVE BaseName(_)
\* the name of an entry within its directory: what follows the last "/" of its path
BaseName(path) ==
    IF path = <<>> THEN <<>>
    ELSE IF path[Len(path)] = "/" THEN <<>>
    ELSE BaseName(SubSeq(path, 1, Len(path) - 1)) \o <<path[Len(path)]>>

\* whether a file name has an extension of the allow-list: a last "." followed by one
HasTextExtension(name) ==
    /\ Len(name) >= 2
    /\ name[Len(name) - 1] = "."
    /\ ToLowerCase(name[Len(name)]) \in TEXT_EXTENSIONS

\* the entry is a directory, lies under the hidden-metadata marker, has a name that
\* starts with ".", or has an extension outside the allow-list
IsNoise(e) ==
    \/ e.dir
    \/ \E i \in 1..Len(e.name) : e.name[i] = "__MACOSX"
    \/ BaseName(e.name) # <<>> /\ BaseName(e.name)[1] = "."
    \/ ~HasTextExtension(BaseName(e.name))

\* the archives without entries among the files of a selection
EmptyArchives(fileList) ==
    {k \in 1..Len(fileList) :
        fileList[k].archive.opens /\ fileList[k].archive.entries = <<>>}

\* C21: for every zip archive, directory entries, entries whose path contains the
\* hidden-metadata marker (__MACOSX), entries whose name starts with '.', and entries
\* whose extension is not in the text allow-list never produce a Document, whatever
\* their extension or content: no document of a pending batch or of the live list bears
\* the name of such an entry.  An empty archive yields zero Documents and no error: the
\* batch holds what its other files hold, and no failure is reported for the archive.
C21_NoiseEntriesSkipped ==
    /\ \A b \in dialog : \A k \in 1..Len(b) : \A j \in 1..Len(b[k].archive.entries) :
          LET e == b[k].archive.entries[j]
          IN  IsNoise(e) =>
                /\ \A i \in 1..Len(files) : files[i].name # e.name
                /\ \A u \in 1..Len(uploads) : \A i \in 1..Len(uploads[u].newFiles) :
                      uploads[u].newFiles[i].name # e.name
    /\ \A u \in 1..Len(uploads) :
          LET fileList == uploads[u].fileList
              others == Keep(fileList, (1..Len(fileList)) \ EmptyArchives(fileList))
          IN  EmptyArchives(fileList) # {} =>
              /\ NamesAndContents(uploads[u].newFiles) = EnumerationOrder(others)
              /\ \A k \in EmptyArchives(fileList) :
                    \A a \in 1..Len(uploads[u].alerts) : uploads[u].alerts[a] # fileList[k].name

\* the document that a file or an archive entry of this name and text becomes is in docs
HasDocument(docs, name, text) ==
    \E i \in 1..Len(docs) : docs[i].name = name /\ docs[i].content = text

\* C22: a decode failure of one individual file or archive entry omits only that file or
\* entry: every other readable file of the batch and every other readable entry of the
\* same archive still becomes a Document, and the batch is never aborted.
C22_DecodeFailureOmitsOne ==
    \A u \in 1..Len(uploads) : \A k \in 1..Len(uploads[u].fileList) :
        LET file == uploads[u].fileList[k]
            kept == SelectedEntries(file.archive.entries)
        IN  IF file.archive.opens
            THEN \A j \in 1..Len(kept) :
                    kept[j].readable =>
                        HasDocument(uploads[u].newFiles, kept[j].name, kept[j].text)
            ELSE file.readable => HasDocument(uploads[u].newFiles, file.name, file.text)

\* the files of a selection that are taken for archives and fail to open
FailingArchives(fileList) ==
    {k \in 1..Len(fileList) :
        /\ \/ fileList[k].name[Len(fileList[k].name)] = "zip"
           \/ \E i \in 1..Len(fileList[k].type) : fileList[k].type[i] = "zip"
        /\ ~fileList[k].archive.opens}

\* C23: an archive that fails to open is skipped as a whole with a failure reported for
\* that file only: it contributes zero Documents, and every other file of the same batch
\* (before and after it) is processed exactly as if the failing archive were absent.
C23_FailingArchiveSkipped ==
    \A u \in 1..Len(uploads) :
        LET fileList == uploads[u].fileList
            failing == FailingArchives(fileList)
            others == Keep(fileList, (1..Len(fileList)) \ failing)
        IN  failing # {} =>
              /\ uploads[u].alerts = [a \in 1..Len(Keep(fileList, failing)) |->
                                        Keep(fileList, failing)[a].name]
              /\ NamesAndContents(uploads[u].newFiles) = EnumerationOrder(others)
              /\ \A i \in 1..Len(uploads[u].newFiles) : \A k \in failing :
                    uploads[u].newFiles[i].name # fileList[k].name

\* readme.md, broken.zip and guide.txt are being ingested after an earlier batch: one
\* failure has been reported, for broken.zip, and readme.md and guide.txt are documents
C23_Witness ==
    /\ files # <<>>
    /\ \E u \in 1..Len(uploads) :
          /\ uploads[u].fileList = <<PickReadme, PickBroken, PickGuide>>
          /\ uploads[u].alerts = <<PickBroken.name>>
          /\ Len(uploads[u].newFiles) = 2
          /\ uploads[u].newFiles[2].name = PickGuide.name

\* the upload is that of a single readable file with an extension of the allow-list
SingleTextFile(upload) ==
    /\ Len(upload.fileList) = 1
    /\ HasTextExtension(upload.fileList[1].name)
    /\ upload.fileList[1].readable

\* the upload yields exactly one Document, with the file's text and declared size
YieldsTheFile(upload) ==
    /\ Len(upload.newFiles) = 1
    /\ upload.newFiles[1].name = upload.fileList[1].name
    /\ upload.newFiles[1].content = upload.fileList[1].text
    /\ upload.newFiles[1].size = upload.fileList[1].size

\* C24 as stated: for every extension in the text allow-list, uploading a single
\* readable file with that extension yields exactly one Document whose content equals
\* the decoded input and whose size equals the file's declared size, whatever media type
\* the file declares.
C24_AnyMediaType ==
    \A u \in 1..Len(uploads) : SingleTextFile(uploads[u]) => YieldsTheFile(uploads[u])

\* C24, amended: for every extension in the text allow-list, uploading a single readable
\* file with that extension yields exactly one Document whose content equals the decoded
\* input and whose size equals the file's declared size, whatever media type the file
\* declares, unless that type contains "zip": such a file is opened as an archive.
C24_TextFileYieldsOneDocument ==
    \A u \in 1..Len(uploads) :
        /\ SingleTextFile(uploads[u])
        /\ \A i \in 1..Len(uploads[u].fileList[1].type) : uploads[u].fileList[1].type[i] # "zip"
        => YieldsTheFile(uploads[u])

\* file.php, declared as application/octet-stream, is being ingested a second time
C24_Witness ==
    /\ files # <<>>
    /\ \E u \in 1..Len(uploads) :
          /\ uploads[u].fileList[1].name = <<"file", ".", "php">>
          /\ uploads[u].fileList[1].type = <<"application", "/", "octet-stream">>
          /\ Len(uploads[u].newFiles) = 1
          /\ uploads[u].newFiles[1].size = 3

\* the place of the first sym in text (Len(text) + 1 when there is none)
RECURSIVE IndexOf(_, _)
IndexOf(text, sym) ==
    IF text = <<>> \/ Head(text) = sym THEN 1 ELSE 1 + IndexOf(Tail(text), sym)

\* the documents a reader finds in a text, in its order: after each delimiter line
\* "--- Document: <name> ---" the content up to the end of its line
RECURSIVE DocumentsIn(_)
DocumentsIn(text) ==
    IF text = <<>> THEN <<>>
    ELSE IF Head(text) # "--- Document: " THEN DocumentsIn(Tail(text))
    ELSE LET rest == Tail(text)
             n == IndexOf(rest, " ---")
             after == SubSeq(rest, n + 2, Len(rest))
             m == IndexOf(after, "\n")
         IN  <<[name |-> SubSeq(rest, 1, n - 1), content |-> SubSeq(after, 1, m - 1)]>>
                \o DocumentsIn(SubSeq(after, m + 1, Len(after)))

\* C25: assemble is a pure, order-preserving function of the document list.  Two calls
\* on lists that are equal by name and content, in order, build identical context and
\* instruction strings; the instruction a session is created with holds one delimiter
\* line and content per document of the list, verbatim and in the list's order; and it is
\* built from the live list at each start: from the list as it is at the click.
C25_AssembleIsPure ==
    /\ \A j, k \in 1..Len(chats) :
          NamesAndContents(chats[j].call.files) = NamesAndContents(chats[k].call.files)
          => /\ chats[j].call.knowledgeBase = chats[k].call.knowledgeBase
             /\ chats[j].config.systemInstruction = chats[k].config.systemInstruction
    /\ \A k \in 1..Len(chats) :
          /\ DocumentsIn(chats[k].call.knowledgeBase) = NamesAndContents(chats[k].call.files)
          /\ DocumentsIn(chats[k].config.systemInstruction) =
                NamesAndContents(chats[k].call.files)
    /\ last.op = "start:begin" => starts[Len(starts)].files = files

\* guide.txt was uploaded twice; a session was started on the first copy, reset, the
\* first copy removed, and a second session started on the second copy alone
C25_Witness ==
    /\ last.op = "start:ok"
    /\ Len(chats) = 2
    /\ chats[1].call.files # chats[2].call.files
    /\ NamesAndContents(chats[1].call.files) = NamesAndContents(chats[2].call.files)
    /\ Len(files) = 1

\* C26: failure of the provider's token counting during start is non-fatal: the start
\* still opens the session, which becomes active with totalInputTokens = 0, and the
\* instruction whose tokens are estimated is the same string as the system instruction
\* the session is created with.
C26_CountFailureIsNotFatal ==
    /\ last.op \in {"start:ok", "start:failed"} /\ last.start.outcome = "throws" /\ apiKey
       => /\ last.op = "start:ok"
          /\ sessionActive
          /\ chatInstance = Len(chats)
          /\ chatState.totalInputTokens = 0
          /\ ~chatState.isLoading
    /\ last.op = "start:ok"
       => chats[chatInstance].config.systemInstruction = last.start.systemInstruction

\* the provider's countTokens failed, and the session on readme.md and guide.txt is open
C26_Witness ==
    /\ last.op = "start:ok"
    /\ last.start.outcome = "throws"
    /\ sessionActive
    /\ Len(last.start.files) = 2
    /\ chatState.totalInputTokens = 0

\* the turn accepted as the n-th is pending
TurnPending(n) == \E t \in 1..Len(turns) : turns[t].n = n

\* the call of the n-th turn has just ended: the busy flag is down and the call has
\* appended one MODEL message, final or error-flagged, to the messages it found
TurnEnded(n) ==
    /\ last.op \in {"send:done", "send:error"}
    /\ last.turn.n = n
    /\ ~chatState.isLoading
    /\ Len(Messages) = Len(last.before.messages) + 1
    /\ SubSeq(Messages, 1, Len(Messages) - 1) = last.before.messages
    /\ LastMessage.role = MODEL
    /\ LastMessage.isError = (last.op = "send:error")

\* a call of handleStartSession has just ended and the busy flag is down
StartEnded ==
    /\ last.op \in {"start:ok", "start:failed"}
    /\ ~chatState.isLoading

\* C27: every accepted turn eventually ends: given that the provider's stream eventually
\* completes or errors, each submission accepted by handleSendMessage is eventually
\* followed by a state in which isLoading is false and exactly one MODEL message
\* (finalized or error-flagged) has been appended for that turn; likewise every start
\* attempt eventually returns isLoading to false; and there is no state in which the busy
\* flag is up with no operation outstanding.
C27_EveryTurnEnds ==
    /\ \A n \in 1..SettlingTurns : TurnPending(n) ~> TurnEnded(n)
    /\ (starts # <<>>) ~> StartEnded
    /\ [](chatState.isLoading => (turns # <<>> \/ starts # <<>>))

\* a turn has been accepted, has streamed a fragment and has ended with an error message
C27_Witness ==
    /\ TurnEnded(1)
    /\ last.turn.delivered # <<>>
    /\ last.op = "send:error"
    /\ sessionActive
    /\ turns = <<>>

\* C28: whenever no session is active (sessionActive false), the session fields are in
\* their reset state: messages is empty, streamingText is empty and both token counters
\* are 0, in every reachable state, including the states reached when a turn or a start
\* was still in flight at the time of reset or fullReset.
C28_InactiveIsReset ==
    ~sessionActive =>
        /\ chatState.messages = <<>>
        /\ chatState.streamingText = <<>>
        /\ chatState.totalInputTokens = 0
        /\ chatState.totalOutputTokens = 0

\* C29: the outcome of a turn is applied only to the session it was sent on: when a
\* fragment, the end or the error of a turn arrives while another session than the
\* turn's is active, the messages, the streaming buffer and the token counters of that
\* session stay as they were, and so does its busy flag.
C29_OutcomeStaysInItsSession ==
    /\ last.op \in {"send:chunk", "send:done", "send:error"}
    /\ sessionActive
    /\ last.turn.chat # chatInstance
    => chatState = last.before

\* C30: while a session is active the live document list is exactly the list the
\* session's instruction was built from: no upload completion, removal or clear changes
\* files between the moment a session becomes active and the next reset, fullReset or
\* load; and the greeting's document count equals the number of live documents at the
\* moment the session becomes active, also when uploads, removals or loads overlap the
\* asynchronous start.
C30_LiveListIsSessionList ==
    /\ sessionActive => files = chats[chatInstance].call.files
    /\ last.op = "start:ok" => Messages = <<Greeting(Len(files))>>

\* the records a reader of the slot finds in it: those of the JSON array stored under
\* the key, none when the slot is absent or holds no JSON
StoredRecords ==
    IF storage = <<>> THEN <<>>
    ELSE IF ~storage[1].wellFormed THEN <<>>
    ELSE JSONparse(storage[1])

\* C31: the in-memory index and the durable slot stay consistent: after startup, in
\* every state reached by successful or failed saves and deletes (and page loads), every
\* record in savedKBs is present in the JSON array stored under the storage key, and
\* after each successful save or delete the stored array equals savedKBs exactly.
C31_IndexMatchesSlot ==
    /\ \A i \in 1..Len(savedKBs) :
          \E j \in 1..Len(StoredRecords) : StoredRecords[j] = savedKBs[i]
    /\ last.op \in {"save:ok", "delete:ok"} =>
          /\ storage # <<>>
          /\ storage[1].wellFormed
          /\ StoredRecords = savedKBs

\* a save has failed after an earlier one succeeded: the index and the slot hold the
\* earlier record
C31_Witness ==
    /\ last.op = "save:failed"
    /\ Len(savedKBs) = 1
    /\ Len(StoredRecords) = 1
    /\ savedKBs[1].files # <<>>

====
